---- MODULE Spec2Model ----
(***************************************************************************)
(* Model of the tslab Jupyter kernel front end (src/src/index.ts):         *)
(* ZmqMessage (wire codec), JupyterHandlerImpl and ZmqServer (dispatch).   *)
(*                                                                         *)
(* A frame (a Buffer, or the string made from it) is a sequence of tokens; *)
(* a message on the wire is a sequence of frames.  The node event loop is  *)
(* modelled by a FIFO queue of promise continuations (microtasks): every   *)
(* `await` in the source ends one step, and the continuation runs when it  *)
(* reaches the head of the queue.  A socket "message" event may fire       *)
(* between any two steps.                                                  *)
(***************************************************************************)
EXTENDS Integers, Sequences, FiniteSets, TLC

VARIABLES tasks, microtasks, log, execCount, closeCalls, proc, codec, exec

vars == <<tasks, microtasks, log, execCount, closeCalls, proc, codec, exec>>

\* ------------------------------------------------------------------ bounds
MaxRequests == 2
MaxIdents == 2
MaxExtras == 2
MaxExecutes == 2
MaxInterrupts == 2

\* --------------------------------------------------------------- constants
Key == "k1"
WrongKey == "k2"
Delim == <<"<IDS|MSG>">>
BadByte == "0xFF"
Replacement == "U+FFFD"

\* ------------------------------------------------------------ JS values
JNull == [t |-> "null"]
Obj(o) == [t |-> "obj", o |-> o]
SyntaxError == [t |-> "error"]
EmptyObj == Obj(<<>>)

KeyOrder ==
  << "version", "date", "session", "username", "msg_type", "msg_id",
     "execution_state", "status", "execution_count", "restart", "code",
     "protocol_version", "implementation", "implementation_version",
     "language_info.name", "language_info.version",
     "language_info.mimetype", "language_info.file_extension", "banner" >>

Numerals == [n \in 0..(MaxRequests + 1) |-> ToString(n)]

ScalarText(k, x) ==
  CASE k = "restart" -> IF x THEN "true" ELSE "false"
    [] k = "execution_count" -> ToString(x)
    [] OTHER -> x

ParseScalar(k, tok) ==
  CASE k = "restart" -> (tok = "true")
    [] k = "execution_count" ->
         IF \E n \in DOMAIN Numerals : Numerals[n] = tok
         THEN CHOOSE n \in DOMAIN Numerals : Numerals[n] = tok
         ELSE 0
    [] OTHER -> tok

RECURSIVE Concat(_)
Concat(fs) == IF fs = <<>> THEN <<>> ELSE Head(fs) \o Concat(Tail(fs))

RECURSIVE Members(_, _)
Members(o, ks) ==
  IF ks = <<>> THEN <<>>
  ELSE (IF Head(ks) \in DOMAIN o
        THEN <<Head(ks), ScalarText(Head(ks), o[Head(ks)])>>
        ELSE <<>>) \o Members(o, Tail(ks))

\* the decimal numeral JSON.stringify writes for one byte of a Buffer
ByteDecimal(x) ==
  CASE x = BadByte -> "255"
    [] x = "b1" -> "98"
    [] x = "b2" -> "99"
    [] OTHER -> x

\* JSON.stringify of a Buffer: {"type":"Buffer","data":[...]}
BufferJSON(b) ==
  <<"{", "type", "Buffer", "data", "[">>
    \o [i \in DOMAIN b |-> ByteDecimal(b[i])] \o <<"]", "}">>

JSONstringify(v) ==
  CASE v.t = "null" -> <<"null">>
    [] v.t = "obj" -> <<"{">> \o Members(v.o, KeyOrder) \o <<"}">>

IsObjectText(s) ==
  /\ Len(s) >= 2
  /\ s[1] = "{"
  /\ s[Len(s)] = "}"
  /\ (Len(s) - 2) % 2 = 0
  /\ \A i \in 1..((Len(s) - 2) \div 2) : s[2 * i] \notin {"{", "}", "[", "]"}

JSONparse(s) ==
  IF s = <<"null">> THEN JNull
  ELSE IF IsObjectText(s)
  THEN LET n == (Len(s) - 2) \div 2
           ks == {s[2 * i] : i \in 1..n}
           last(k) == CHOOSE i \in 1..n :
                        /\ s[2 * i] = k
                        /\ \A j \in 1..n : s[2 * j] = k => j <= i
       IN Obj([k \in ks |-> ParseScalar(k, s[2 * last(k) + 1])])
  ELSE SyntaxError

\* Buffer.prototype.toString(): UTF-8 decoding, invalid bytes are replaced
BufToString(b) ==
  [i \in DOMAIN b |-> IF b[i] = BadByte THEN Replacement ELSE b[i]]

\* createHmac("sha256", key), update(...) for each frame, digest("hex")
Hmac(key, frames) == <<"hmac", key>> \o Concat(frames)


\* ------------------------------------------------------------ ZmqMessage
NoMsg ==
  [identity |-> <<>>, delim |-> <<>>, hmac |-> <<>>, header |-> JNull,
   parent |-> JNull, metadata |-> JNull, content |-> JNull, extra |-> <<>>]

\* mutant: the digest is computed but never compared
verifyHmac_Unchecked(key, hmac, rest) == Hmac(key, rest) = Hmac(key, rest)

verifyHmac(key, hmac, rest) == Hmac(key, rest) = hmac

\* [ok |-> FALSE] stands for the exception fromRaw throws
fromRaw(key, raw) ==
  IF Len(raw) < 7 THEN [ok |-> FALSE, msg |-> NoMsg]
  ELSE
    LET ret == [identity |-> BufToString(raw[1]),
                delim    |-> BufToString(raw[2]),
                hmac     |-> BufToString(raw[3]),
                header   |-> JSONparse(BufToString(raw[4])),
                parent   |-> JSONparse(BufToString(raw[5])),
                metadata |-> JSONparse(BufToString(raw[6])),
                content  |-> JSONparse(BufToString(raw[7])),
                extra    |-> SubSeq(raw, 8, Len(raw))]
    IN IF \/ SyntaxError \in {ret.header, ret.parent, ret.metadata, ret.content}
          \/ ~verifyHmac(key, ret.hmac, SubSeq(raw, 4, Len(raw)))
       THEN [ok |-> FALSE, msg |-> NoMsg]
       ELSE [ok |-> TRUE, msg |-> ret]

\* new Date().toISOString(): the wall-clock reading, an opaque token
Now == "now"

\* mutant: the reply inherits the request's parent instead of its header
createReply_ParentCopied(this, date) ==
  [identity |-> this.identity,
   delim    |-> this.delim,
   hmac     |-> <<>>,
   header   |-> Obj([version  |-> "5.3",
                     date     |-> date,
                     session  |-> this.header.o.session,
                     username |-> this.header.o.username,
                     msg_type |-> this.header.o.msg_type,
                     msg_id   |-> this.header.o.msg_id]),
   parent   |-> this.parent,
   metadata |-> EmptyObj,
   content  |-> EmptyObj,
   extra    |-> <<>>]

createReply(this, date) ==
  [identity |-> this.identity,
   delim    |-> this.delim,
   hmac     |-> <<>>,
   header   |-> Obj([version  |-> "5.3",
                     date     |-> date,
                     session  |-> this.header.o.session,
                     username |-> this.header.o.username,
                     msg_type |-> this.header.o.msg_type,
                     msg_id   |-> this.header.o.msg_id]),
   parent   |-> this.header,
   metadata |-> EmptyObj,
   content  |-> EmptyObj,
   extra    |-> <<>>]

\* the frames signAndSend hands to sock.send
signAndSend(this, key) ==
  LET heads  == <<this.identity, this.delim>>
      bodies == <<JSONstringify(this.header), JSONstringify(this.parent),
                  JSONstringify(this.metadata), JSONstringify(this.content)>>
                \o [i \in DOMAIN this.extra |-> BufferJSON(this.extra[i])]
  IN heads \o <<Hmac(key, bodies)>> \o bodies


\* ---------------------------------------------------- JupyterHandlerImpl
ts == TRUE

handleKernel ==
  Obj([protocol_version |-> "5.3",
       implementation |-> IF ts THEN "tslab" ELSE "jslab",
       implementation_version |-> "1.0.0",
       banner |-> "TypeScript"]
      @@ ("language_info.name" :> "javascript")
      @@ ("language_info.version" :> "")
      @@ ("language_info.mimetype" :> "")
      @@ ("language_info.file_extension" :> IF ts THEN ".ts" ELSE ".js"))

\* conv.convert(prevDecl, src), the converter being given by what it returns
\* for the sources tried: "c2" has diagnostics, "c3" compiles and throws when
\* it is run, "c4" awaits at top level, anything else compiles and runs;
\* the declarations a source leaves behind are named after the source
convert(src) ==
  [diagnostics |-> IF src = "c2" THEN 1 ELSE 0,
   output |-> IF src = "c2" THEN "" ELSE "js",
   declOutput |-> src,
   hasToplevelAwait |-> src = "c4"]

runInContextThrows(src) == src = "c3"

\* what the promise of Executor.execute(src) resolves to when nothing the
\* source awaits is rejected and no interrupt is issued
execute(src) ==
  LET converted == convert(src)
  IN IF converted.diagnostics > 0 THEN FALSE
     ELSE IF converted.output = "" THEN TRUE
     ELSE IF runInContextThrows(src) THEN FALSE
     ELSE TRUE

\* the executor after createExecutor: no declarations, a first pending
\* interruptPromise (promises are numbered), no call of execute made and no
\* promise job queued
createExecutor ==
  [prevDecl |-> "", interruptPromise |-> 0, rejected |-> {},
   interrupts |-> 0, calls |-> <<>>, jobs |-> <<>>]

\* the reactions Promise.race registered on promise p for the calls of
\* execute that are still waiting: one promise job per call
RaceReactions(e, p) ==
  LET waiting == SelectSeq([i \in DOMAIN e.calls |-> i],
                           LAMBDA i : /\ e.calls[i].result = "pending"
                                      /\ e.calls[i].race = p)
  IN [k \in DOMAIN waiting |-> [kind |-> "race", call |-> waiting[k], outcome |-> "rejected"]]

\* mutant: the rejected interruptPromise is kept
interrupt_NoReset(e) ==
  [e EXCEPT !.jobs = IF e.interruptPromise \in e.rejected THEN @
                     ELSE @ \o RaceReactions(e, e.interruptPromise),
            !.rejected = @ \cup {e.interruptPromise}]

\* rejectInterruptPromise(interrupted); resetInterruptPromise()
interrupt(e) ==
  [e EXCEPT !.jobs = @ \o RaceReactions(e, e.interruptPromise),
            !.rejected = @ \cup {e.interruptPromise},
            !.interruptPromise = @ + 1]

\* req.code on a null request raises a TypeError before the counter moves
handleExecuteThrows(req) == req.t # "obj"

\* mutant: the reply does not carry the counter
handleExecute_CountOne(req, count) == Obj([status |-> "ok", execution_count |-> 1])

handleExecute(req, count) == Obj([status |-> "ok", execution_count |-> count + 1])

handleIsComplete(req) == Obj([status |-> "complete"])

handleShutdown(req) == Obj([restart |-> FALSE])

\* ------------------------------------------------- what clients may send
RequestTypes ==
  {"kernel_info_request", "execute_request", "is_complete_request",
   "shutdown_request"}

ReplyType(t) ==
  CASE t = "kernel_info_request" -> "kernel_info_reply"
    [] t = "execute_request" -> "execute_reply"
    [] t = "is_complete_request" -> "is_complete_reply"
    [] t = "shutdown_request" -> "shutdown_reply"

HandlerOp(t) ==
  CASE t = "kernel_info_request" -> "handleKernel"
    [] t = "execute_request" -> "handleExecute"
    [] t = "is_complete_request" -> "handleIsComplete"
    [] t = "shutdown_request" -> "handleShutdown"

MsgTypes == RequestTypes \cup {"frobnicate_request"}

Hdr(t, m) ==
  Obj([version |-> "5.3", date |-> "d0", session |-> "s1",
       username |-> "u1", msg_type |-> t, msg_id |-> m])

ContentsFor(t) ==
  CASE t = "execute_request" -> {Obj([code |-> "c1"]), JNull}
    [] t = "shutdown_request" -> {Obj([restart |-> FALSE])}
    [] OTHER -> {EmptyObj}

ClientBodies(h, c) ==
  <<JSONstringify(h), JSONstringify(EmptyObj), JSONstringify(EmptyObj),
    JSONstringify(c)>>

ClientFrames(ids, key, bodies) == ids \o <<Delim, Hmac(key, bodies)>> \o bodies

IdentFrames == {<<"id1">>}

RECURSIVE SeqsUpTo(_, _)
SeqsUpTo(S, n) ==
  IF n = 0 THEN {<<>>}
  ELSE LET R == SeqsUpTo(S, n - 1)
       IN R \cup {Append(q, x) : q \in {r \in R : Len(r) = n - 1}, x \in S}

OneIdent == <<<<"id1">>>>

\* correctly signed, one routing identity, every message type
PlainInputs ==
  UNION {{ClientFrames(OneIdent, Key, ClientBodies(Hdr(t, "m1"), c)) :
            c \in ContentsFor(t)} : t \in MsgTypes}

\* correctly signed, any number of routing identities, or one routing
\* identity that is not valid UTF-8 (ZeroMQ's generated identities are binary)
RoutedInputs ==
  {ClientFrames(ids, Key, ClientBodies(Hdr("kernel_info_request", "m1"), EmptyObj)) :
     ids \in SeqsUpTo(IdentFrames, MaxIdents) \cup {<<<<"id2", BadByte>>>>}}

GoodBodies == ClientBodies(Hdr("execute_request", "m4"), Obj([code |-> "c1"]))
EvilBodies == ClientBodies(Hdr("shutdown_request", "m4"), Obj([restart |-> FALSE]))

\* signed with another key / body altered after signing / body not JSON
ForgedInputs ==
  { ClientFrames(OneIdent, WrongKey, GoodBodies),
    OneIdent \o <<Delim, Hmac(Key, GoodBodies)>> \o EvilBodies,
    ClientFrames(OneIdent, Key, [GoodBodies EXCEPT ![4] = <<"{", "code">>]) }

RawInputs == PlainInputs \cup RoutedInputs \cup ForgedInputs

\* the batches tried on each socket: everything on shell, a sample on control
ControlInputs ==
  { ClientFrames(OneIdent, Key,
      ClientBodies(Hdr("execute_request", "m1"), Obj([code |-> "c1"]))),
    ClientFrames(OneIdent, WrongKey, GoodBodies) }

InputsOn(sock) == IF sock = "shell" THEN RawInputs ELSE ControlInputs

Sockets == {"shell", "control"}

\* execute requests: code that runs and code the converter rejects
ExecuteCodes == {"c1", "c2"}

ExecuteInputs ==
  {ClientFrames(OneIdent, Key,
                ClientBodies(Hdr("execute_request", "m1"), Obj([code |-> x]))) :
     x \in ExecuteCodes}

\* fromRaw under the configured key, for every batch a client may send
Decoded == [raw \in RawInputs \cup ExecuteInputs |-> fromRaw(Key, raw)]


\* ------------------------------------------------------------- ZmqServer
\* log entries: frames handed to sock.send, and handler operations invoked
\* (with what they returned, or Thrown); req is the task they belong to
Thrown == [t |-> "throw"]

Send(sock, frames, req) ==
  [kind |-> "send", sock |-> sock, frames |-> frames, req |-> req,
   op |-> "-", result |-> JNull]

Call(op, req, result) ==
  [kind |-> "call", sock |-> "-", frames |-> <<>>, req |-> req,
   op |-> op, result |-> result]

\* no message is being taken through signAndSend and fromRaw on its own
NoCodec == [pc |-> "none", m |-> NoMsg, key |-> Key, raw |-> <<>>,
            out |-> [ok |-> FALSE, msg |-> NoMsg]]

\* the five sockets of ZmqServer.init
Channels == {"iopub", "shell", "control", "stdin", "hb"}

\* process.argv[1], by its characters
Commands == {<<"t", "s", "l", "a", "b">>, <<"j", "s", "l", "a", "b">>}

\* the server started as tslab, init over and every socket bound
Init ==
  /\ tasks = <<>>
  /\ microtasks = <<>>
  /\ log = <<>>
  /\ execCount = 0
  /\ closeCalls = 0
  /\ proc = [cmd |-> <<"t", "s", "l", "a", "b">>, init |-> "resolved",
             alive |-> TRUE, bound |-> [c \in Channels |-> "bound"]]
  /\ codec = NoCodec
  /\ exec = createExecutor

\* the message a task decoded, and the reply createReply derived from it at
\* the task's last call (a pure function of the message and the clock)
Msg(t) == Decoded[tasks[t].raw].msg
Rep(t) == createReply(Msg(t), Now)

\* the continuation at the head of the microtask queue
Running(t, pc) ==
  /\ microtasks # <<>>
  /\ t = Head(microtasks)
  /\ tasks[t].pc = pc

\* mutant: the newest job runs first
Enqueue_Stack(q, t) == <<t>> \o q

\* promise jobs run in the order they were queued
Enqueue(q, t) == Append(q, t)

Yield(t) == Enqueue(Tail(microtasks), t)

\* mutant: the broadcast keeps the request's msg_type
publishStatus_KeepsType(status, rep) ==
  signAndSend([rep EXCEPT !.content = Obj([execution_state |-> status])], Key)

\* publishStatus after `await parent.createReply()`
publishStatus(status, rep) ==
  signAndSend([rep EXCEPT !.content = Obj([execution_state |-> status]),
                          !.header.o.msg_type = "status"], Key)

\* mutant: a socket's "message" event may fire between any two promise jobs
Deliverable_Anytime(sock) == TRUE

\* when the "message" event of a socket can fire.  The listeners are called
\* by the socket's read flush, entered from the socket's own poll callback,
\* which emits the messages that are ready one after the other.  Every await
\* of handleShellMessage is on a promise that is already settled, so the
\* continuations are promise jobs, and node runs all pending promise jobs
\* before it enters another callback: while calls are pending, only the
\* socket they came from can deliver further messages.
Deliverable(sock) ==
  \A i \in DOMAIN microtasks : tasks[microtasks[i]].sock = sock

\* "message" event on shell or control: handleShellMessage up to its first
\* await (fromRaw, then publishStatus("busy") up to createReply); at is the
\* number of sends and handler calls made before the event
HandleShellMessage(sock, raw) ==
  LET r == Decoded[raw]
      t == Len(tasks) + 1
  IN /\ Len(tasks) < MaxRequests
     /\ Deliverable(sock)
     /\ tasks' = Append(tasks,
                   [sock |-> sock, raw |-> raw,
                    pc |-> IF r.ok THEN "busy" ELSE "rejected",
                    threw |-> FALSE, at |-> Len(log)])
     /\ microtasks' = IF r.ok THEN Enqueue(microtasks, t) ELSE microtasks
     /\ UNCHANGED <<log, execCount, closeCalls>>
     /\ UNCHANGED <<proc, codec, exec>>

\* mutant: the busy status is never sent
PublishBusy_Silent ==
  \E t \in DOMAIN tasks :
    /\ Running(t, "busy")
    /\ tasks' = [tasks EXCEPT ![t].pc = "route"]
    /\ microtasks' = Yield(t)
    /\ UNCHANGED <<log, execCount, closeCalls>>
    /\ UNCHANGED <<proc, codec, exec>>

PublishBusy ==
  \E t \in DOMAIN tasks :
    /\ Running(t, "busy")
    /\ log' = Append(log, Send("iopub", publishStatus("busy", Rep(t)), t))
    /\ tasks' = [tasks EXCEPT ![t].pc = "route"]
    /\ microtasks' = Yield(t)
    /\ UNCHANGED <<execCount, closeCalls>>
    /\ UNCHANGED <<proc, codec, exec>>

\* mutant: the default branch returns without publishing idle
Dispatch_SkipsIdle ==
  \E t \in DOMAIN tasks :
    /\ Running(t, "route")
    /\ tasks' = [tasks EXCEPT
                   ![t].pc = IF Msg(t).header.o.msg_type \in RequestTypes
                             THEN "handle" ELSE "end"]
    /\ microtasks' = Yield(t)
    /\ UNCHANGED <<log, execCount, closeCalls>>
    /\ UNCHANGED <<proc, codec, exec>>

\* the switch of handleShellMessage: a recognized type calls its handler,
\* which runs up to `await msg.createReply()`; any other type falls through
\* to the finally block, which calls publishStatus("idle")
Dispatch ==
  \E t \in DOMAIN tasks :
    /\ Running(t, "route")
    /\ tasks' = [tasks EXCEPT
                   ![t].pc = IF Msg(t).header.o.msg_type \in RequestTypes
                             THEN "handle" ELSE "idle"]
    /\ microtasks' = Yield(t)
    /\ UNCHANGED <<log, execCount, closeCalls>>
    /\ UNCHANGED <<proc, codec, exec>>

Handling(t, type) ==
  /\ Running(t, "handle")
  /\ Msg(t).header.o.msg_type = type

\* mutant: replies always leave through the shell socket
Reply_OnShell(t, type, content) ==
  Send("shell",
       signAndSend([Rep(t) EXCEPT !.header.o.msg_type = type,
                                  !.content = content], Key),
       t)

Reply(t, type, content) ==
  Send(tasks[t].sock,
       signAndSend([Rep(t) EXCEPT !.header.o.msg_type = type,
                                        !.content = content], Key),
       t)

HandleKernelInfo ==
  \E t \in DOMAIN tasks :
    /\ Handling(t, "kernel_info_request")
    /\ log' = log \o <<Call("handleKernel", t, handleKernel),
                       Reply(t, "kernel_info_reply", handleKernel)>>
    /\ tasks' = [tasks EXCEPT ![t].pc = "finally"]
    /\ microtasks' = Yield(t)
    /\ UNCHANGED <<execCount, closeCalls>>
    /\ UNCHANGED <<proc, codec, exec>>

\* mutant: no finally block, a throwing handler ends the request at once
HandleExecute_NoFinally ==
  \E t \in DOMAIN tasks :
    /\ Handling(t, "execute_request")
    /\ IF handleExecuteThrows(Msg(t).content)
       THEN /\ log' = Append(log, Call("handleExecute", t, Thrown))
            /\ tasks' = [tasks EXCEPT ![t].pc = "end", ![t].threw = TRUE]
            /\ UNCHANGED execCount
       ELSE /\ log' = log \o <<Call("handleExecute", t,
                                    handleExecute(Msg(t).content, execCount)),
                               Reply(t, "execute_reply",
                                     handleExecute(Msg(t).content, execCount))>>
            /\ tasks' = [tasks EXCEPT ![t].pc = "finally"]
            /\ execCount' = execCount + 1
    /\ microtasks' = Yield(t)
    /\ UNCHANGED closeCalls
    /\ UNCHANGED <<proc, codec, exec>>

HandleExecute ==
  \E t \in DOMAIN tasks :
    /\ Handling(t, "execute_request")
    /\ IF handleExecuteThrows(Msg(t).content)
       THEN /\ log' = Append(log, Call("handleExecute", t, Thrown))
            /\ tasks' = [tasks EXCEPT ![t].pc = "finally", ![t].threw = TRUE]
            /\ UNCHANGED execCount
       ELSE /\ log' = log \o <<Call("handleExecute", t,
                                    handleExecute(Msg(t).content, execCount)),
                               Reply(t, "execute_reply",
                                     handleExecute(Msg(t).content, execCount))>>
            /\ tasks' = [tasks EXCEPT ![t].pc = "finally"]
            /\ execCount' = execCount + 1
    /\ microtasks' = Yield(t)
    /\ UNCHANGED closeCalls
    /\ UNCHANGED <<proc, codec, exec>>

HandleIsComplete ==
  \E t \in DOMAIN tasks :
    /\ Handling(t, "is_complete_request")
    /\ log' = log \o <<Call("handleIsComplete", t,
                            handleIsComplete(Msg(t).content)),
                       Reply(t, "is_complete_reply",
                             handleIsComplete(Msg(t).content))>>
    /\ tasks' = [tasks EXCEPT ![t].pc = "finally"]
    /\ microtasks' = Yield(t)
    /\ UNCHANGED <<execCount, closeCalls>>
    /\ UNCHANGED <<proc, codec, exec>>

\* mutant: the converter is never closed
HandleShutdown_NoClose ==
  \E t \in DOMAIN tasks :
    /\ Handling(t, "shutdown_request")
    /\ log' = log \o <<Call("handleShutdown", t,
                            handleShutdown(Msg(t).content)),
                       Reply(t, "shutdown_reply",
                             handleShutdown(Msg(t).content))>>
    /\ tasks' = [tasks EXCEPT ![t].pc = "finally"]
    /\ microtasks' = Yield(t)
    /\ UNCHANGED <<execCount, closeCalls>>
    /\ UNCHANGED <<proc, codec, exec>>

HandleShutdown ==
  \E t \in DOMAIN tasks :
    /\ Handling(t, "shutdown_request")
    /\ log' = log \o <<Call("handleShutdown", t,
                            handleShutdown(Msg(t).content)),
                       Reply(t, "shutdown_reply",
                             handleShutdown(Msg(t).content))>>
    /\ closeCalls' = closeCalls + 1
    /\ tasks' = [tasks EXCEPT ![t].pc = "finally"]
    /\ microtasks' = Yield(t)
    /\ UNCHANGED execCount
    /\ UNCHANGED <<proc, codec, exec>>

\* handleShellMessage resumes after the handler settled: finally block calls
\* publishStatus("idle"), which runs up to createReply
Finally ==
  \E t \in DOMAIN tasks :
    /\ Running(t, "finally")
    /\ tasks' = [tasks EXCEPT ![t].pc = "idle"]
    /\ microtasks' = Yield(t)
    /\ UNCHANGED <<log, execCount, closeCalls>>
    /\ UNCHANGED <<proc, codec, exec>>

PublishIdle ==
  \E t \in DOMAIN tasks :
    /\ Running(t, "idle")
    /\ log' = Append(log, Send("iopub", publishStatus("idle", Rep(t)), t))
    /\ tasks' = [tasks EXCEPT ![t].pc = "end"]
    /\ microtasks' = Yield(t)
    /\ UNCHANGED <<execCount, closeCalls>>
    /\ UNCHANGED <<proc, codec, exec>>

\* the promise of handleShellMessage settles (rejected if the handler threw)
Settle ==
  \E t \in DOMAIN tasks :
    /\ Running(t, "end")
    /\ tasks' = [tasks EXCEPT ![t].pc = IF tasks[t].threw THEN "failed" ELSE "done"]
    /\ microtasks' = Tail(microtasks)
    /\ UNCHANGED <<log, execCount, closeCalls>>
    /\ UNCHANGED <<proc, codec, exec>>

Next ==
  \/ \E sock \in Sockets : \E raw \in InputsOn(sock) : HandleShellMessage(sock, raw)
  \/ PublishBusy
  \/ Dispatch
  \/ HandleKernelInfo
  \/ HandleExecute
  \/ HandleIsComplete
  \/ HandleShutdown
  \/ Finally
  \/ PublishIdle
  \/ Settle

Spec == Init /\ [][Next]_vars

\* the server with execute requests only, on the shell socket
ExecuteNext ==
  \/ \E raw \in ExecuteInputs : HandleShellMessage("shell", raw)
  \/ PublishBusy
  \/ Dispatch
  \/ HandleExecute
  \/ Finally
  \/ PublishIdle
  \/ Settle

ExecuteSpec == Init /\ [][ExecuteNext]_vars

\* the promise job at the head of the queue runs: it leaves the queue, and
\* joins it again at the end if the call reaches another await
RunJob ==
  /\ microtasks # <<>>
  /\ microtasks' \in {Tail(microtasks), Yield(Head(microtasks))}

\* node drains the queue of promise jobs: a queued job is eventually run
FairExecuteSpec == ExecuteSpec /\ WF_microtasks(RunJob)

\* ------------------------------------------------------------ heartbeat
\* what a peer may send to the hb socket: one frame holding a byte that is
\* not valid UTF-8, two frames, a correctly signed execute_request
HbPayloads ==
  { <<<<"ping", BadByte>>>>,
    <<<<"a">>, <<"b">>>>,
    ClientFrames(OneIdent, Key,
                 ClientBodies(Hdr("execute_request", "m1"), Obj([code |-> "c1"]))) }

\* a payload reaches the hb socket; it waits there for the "message" event
HbArrive(payload) ==
  /\ Len(tasks) < MaxRequests
  /\ tasks' = Append(tasks, [sock |-> "hb", raw |-> payload, pc |-> "pending",
                             threw |-> FALSE, at |-> Len(log)])
  /\ UNCHANGED <<microtasks, log, execCount, closeCalls>>
  /\ UNCHANGED <<proc, codec, exec>>

\* mutant: the frames are echoed as strings
hbSend_Strings(args) == [i \in DOMAIN args |-> BufToString(args[i])]

\* hb.send(args): the frames handed to the socket
hbSend(args) == args

\* "message" event on hb, for the payload that has waited longest: the
\* listener echoes it
HbMessage ==
  \E t \in DOMAIN tasks :
    /\ tasks[t].sock = "hb" /\ tasks[t].pc = "pending"
    /\ \A u \in 1..(t - 1) : ~(tasks[u].sock = "hb" /\ tasks[u].pc = "pending")
    /\ Deliverable("hb")
    /\ log' = Append(log, Send("hb", hbSend(tasks[t].raw), t))
    /\ tasks' = [tasks EXCEPT ![t].pc = "done"]
    /\ UNCHANGED <<microtasks, execCount, closeCalls>>
    /\ UNCHANGED <<proc, codec, exec>>

\* the server with heartbeats and execute requests on shell
HbNext ==
  \/ \E payload \in HbPayloads : HbArrive(payload)
  \/ HbMessage
  \/ \E raw \in ExecuteInputs : HandleShellMessage("shell", raw)
  \/ PublishBusy
  \/ Dispatch
  \/ HandleExecute
  \/ Finally
  \/ PublishIdle
  \/ Settle

HbSpec == Init /\ [][HbNext]_vars

\* ----------------------------------------------------------------- main
\* String.prototype.startsWith
startsWith(s, prefix) ==
  Len(s) >= Len(prefix) /\ SubSeq(s, 1, Len(prefix)) = prefix

\* main: the local variable ts, computed from the command name; the handler
\* is constructed with the literal true (ts above), not with this value
mainTs(cmd) == startsWith(cmd, <<"t", "s">>)

\* the process before main has called server.init()
MainInit ==
  /\ tasks = <<>>
  /\ microtasks = <<>>
  /\ log = <<>>
  /\ execCount = 0
  /\ closeCalls = 0
  /\ proc \in {[cmd |-> c, init |-> "none", alive |-> TRUE,
                bound |-> [ch \in Channels |-> "unbound"]] : c \in Commands}
  /\ codec = NoCodec
  /\ exec = createExecutor

\* ZmqServer.init: the sockets are created, the listeners registered and
\* bindSocket is called for each socket; the promises it returns are not
\* awaited, so init's own promise resolves with every bind still pending
ZmqServerInit ==
  /\ proc.alive /\ proc.init = "none"
  /\ proc' = [proc EXCEPT !.init = "resolved",
                          !.bound = [ch \in Channels |-> "pending"]]
  /\ UNCHANGED <<tasks, microtasks, log, execCount, closeCalls, codec, exec>>

\* the callback of sock.bind: the socket is bound, or the promise bindSocket
\* returned is rejected.  Nothing handles the rejection: depending on its
\* version node prints a warning and goes on, or ends the process (exits)
BindSocketDone(ch, ok, exits) ==
  /\ proc.alive /\ proc.bound[ch] = "pending"
  /\ microtasks = <<>>
  /\ proc' = [proc EXCEPT !.bound[ch] = IF ok THEN "bound" ELSE "failed",
                          !.alive = ok \/ ~exits]
  /\ UNCHANGED <<tasks, microtasks, log, execCount, closeCalls, codec, exec>>

KernelInfoInputs ==
  {ClientFrames(OneIdent, Key,
                ClientBodies(Hdr("kernel_info_request", "m1"), EmptyObj))}

\* main: startup, then kernel_info requests on the shell socket once it is
\* bound
MainNext ==
  \/ ZmqServerInit
  \/ \E ch \in Channels : \E ok, exits \in BOOLEAN : BindSocketDone(ch, ok, exits)
  \/ \E raw \in KernelInfoInputs :
       /\ proc.alive /\ proc.bound["shell"] = "bound"
       /\ HandleShellMessage("shell", raw)
  \/ PublishBusy
  \/ Dispatch
  \/ HandleKernelInfo
  \/ Finally
  \/ PublishIdle
  \/ Settle

MainSpec == MainInit /\ [][MainNext]_vars

\* ----------------------------------------------- the codec on its own
\* messages to encode: a string identity, JSON values for the four body
\* fields, and up to MaxExtras extra buffers (one of them not valid UTF-8)
ExtraBuffers == {<<"b1">>, <<"b2", BadByte>>}

Messages ==
  [identity : {<<"id1">>, <<"id2", Replacement>>},
   delim    : {Delim},
   hmac     : {<<>>},
   header   : {Hdr("execute_reply", "m1"), Hdr("status", "m2")},
   parent   : {EmptyObj, Hdr("execute_request", "m1")},
   metadata : {EmptyObj},
   content  : {EmptyObj, JNull, Obj([status |-> "ok", execution_count |-> 1])},
   extra    : SeqsUpTo(ExtraBuffers, MaxExtras)]

CodecInit ==
  /\ tasks = <<>>
  /\ microtasks = <<>>
  /\ log = <<>>
  /\ execCount = 0
  /\ closeCalls = 0
  /\ proc = [cmd |-> <<"t", "s", "l", "a", "b">>, init |-> "resolved",
             alive |-> TRUE, bound |-> [c \in Channels |-> "bound"]]
  /\ codec \in {[pc |-> "message", m |-> m, key |-> k, raw |-> <<>>,
                 out |-> [ok |-> FALSE, msg |-> NoMsg]] :
                  m \in Messages, k \in {Key, WrongKey}}
  /\ exec = createExecutor

\* m.signAndSend(key, sock): the frames given to sock.send
Encode ==
  /\ codec.pc = "message"
  /\ codec' = [codec EXCEPT !.pc = "sent", !.raw = signAndSend(codec.m, codec.key)]
  /\ UNCHANGED <<tasks, microtasks, log, execCount, closeCalls, proc, exec>>

\* the peer receives the frames (as Buffers holding the strings sent) and
\* decodes them: ZmqMessage.fromRaw(key, raw)
Decode ==
  /\ codec.pc = "sent"
  /\ codec' = [codec EXCEPT !.pc = "decoded", !.out = fromRaw(codec.key, codec.raw)]
  /\ UNCHANGED <<tasks, microtasks, log, execCount, closeCalls, proc, exec>>

CodecNext == Encode \/ Decode

CodecSpec == CodecInit /\ [][CodecNext]_vars

\* ------------------------------------------------- the executor on its own
ExecutorCodes == {"c1", "c2", "c3", "c4"}

\* execute(src) up to its return or its await. The history fields after,
\* interrupted and updated record the interrupts issued before the call, an
\* interrupt issued while it was waiting, and its assignment to prevDecl.
Execute(src) ==
  /\ Len(exec.calls) < MaxExecutes
  /\ LET converted == convert(src)
         n == Len(exec.calls) + 1
         call == [src |-> src, after |-> exec.interrupts, interrupted |-> FALSE,
                  updated |-> FALSE, race |-> exec.interruptPromise,
                  promise |-> "none", settled |-> "pending", result |-> "pending"]
     IN IF converted.diagnostics > 0
        THEN exec' = [exec EXCEPT !.calls = Append(@, [call EXCEPT !.result = "false"])]
        ELSE IF converted.output = ""
        THEN exec' = [exec EXCEPT
                        !.prevDecl = converted.declOutput,
                        !.calls = Append(@, [call EXCEPT !.result = "true", !.updated = TRUE])]
        ELSE IF runInContextThrows(src)
        THEN exec' = [exec EXCEPT !.calls = Append(@, [call EXCEPT !.result = "false"])]
        ELSE IF converted.hasToplevelAwait
        THEN exec' = [exec EXCEPT
                        !.calls = Append(@, [call EXCEPT !.promise = "pending"]),
                        !.jobs = IF exec.interruptPromise \in exec.rejected
                                 THEN Append(@, [kind |-> "race", call |-> n,
                                                 outcome |-> "rejected"])
                                 ELSE @]
        ELSE exec' = [exec EXCEPT
                        !.prevDecl = converted.declOutput,
                        !.calls = Append(@, [call EXCEPT !.result = "true", !.updated = TRUE])]
  /\ UNCHANGED <<tasks, microtasks, log, execCount, closeCalls, proc, codec>>

\* the promise the wrapped async function returned is settled by the code
\* that was run: Promise.race's reaction on it becomes a promise job
UserSettles(i, outcome) ==
  /\ i \in DOMAIN exec.calls
  /\ exec.calls[i].promise = "pending"
  /\ exec' = [exec EXCEPT
                !.calls[i].promise = outcome,
                !.jobs = Append(@, [kind |-> "race", call |-> i, outcome |-> outcome])]
  /\ UNCHANGED <<tasks, microtasks, log, execCount, closeCalls, proc, codec>>

\* the SIGINT handler calls interrupt(): a callback of the event loop, which
\* runs when no promise job is queued
Interrupt ==
  /\ exec.jobs = <<>>
  /\ exec.interrupts < MaxInterrupts
  /\ LET e == interrupt(exec)
     IN exec' = [e EXCEPT
                   !.interrupts = @ + 1,
                   !.calls = [i \in DOMAIN @ |->
                                IF @[i].result = "pending"
                                THEN [@[i] EXCEPT !.interrupted = TRUE]
                                ELSE @[i]]]
  /\ UNCHANGED <<tasks, microtasks, log, execCount, closeCalls, proc, codec>>

\* a reaction of Promise.race runs: the first one settles the race and
\* queues the continuation of the await
RaceJob ==
  /\ exec.jobs # <<>>
  /\ Head(exec.jobs).kind = "race"
  /\ LET j == Head(exec.jobs)
     IN IF exec.calls[j.call].settled = "pending"
        THEN exec' = [exec EXCEPT
                        !.calls[j.call].settled = j.outcome,
                        !.jobs = Append(Tail(@), [kind |-> "resume", call |-> j.call,
                                                  outcome |-> j.outcome])]
        ELSE exec' = [exec EXCEPT !.jobs = Tail(@)]
  /\ UNCHANGED <<tasks, microtasks, log, execCount, closeCalls, proc, codec>>

\* execute continues after `await Promise.race([promise, interruptPromise])`
ResumeJob ==
  /\ exec.jobs # <<>>
  /\ Head(exec.jobs).kind = "resume"
  /\ LET j == Head(exec.jobs)
         c == exec.calls[j.call]
     IN IF c.settled = "rejected"
        THEN exec' = [exec EXCEPT !.calls[j.call].result = "false", !.jobs = Tail(@)]
        ELSE exec' = [exec EXCEPT
                        !.prevDecl = convert(c.src).declOutput,
                        !.calls[j.call].result = "true",
                        !.calls[j.call].updated = TRUE,
                        !.jobs = Tail(@)]
  /\ UNCHANGED <<tasks, microtasks, log, execCount, closeCalls, proc, codec>>

ExecutorNext ==
  \/ \E src \in ExecutorCodes : Execute(src)
  \/ \E i \in 1..MaxExecutes : \E outcome \in {"fulfilled", "rejected"} : UserSettles(i, outcome)
  \/ Interrupt
  \/ RaceJob
  \/ ResumeJob

ExecutorSpec == Init /\ [][ExecutorNext]_vars

FairSpec == Spec /\ WF_vars(PublishBusy \/ Dispatch \/ HandleKernelInfo \/ HandleExecute \/ HandleIsComplete \/ HandleShutdown \/ Finally \/ PublishIdle \/ Settle)

\* ------------------------------------------------------------ observers
\* what a peer holding the key reads in a sent frame batch: the value of a
\* property in a JSON frame, the frames by their place, the signature
Field(frame, k) ==
  frame[1 + CHOOSE j \in 1..Len(frame) : j % 2 = 0 /\ frame[j] = k]

MsgType(e) == Field(e.frames[4], "msg_type")
Parent(e) == e.frames[5]
Content(e) == e.frames[7]
Signed(e) ==
  /\ Len(e.frames) = 7
  /\ e.frames[3] = Hmac(Key, SubSeq(e.frames, 4, 7))

BusyContent == JSONstringify(Obj([execution_state |-> "busy"]))
IdleContent == JSONstringify(Obj([execution_state |-> "idle"]))

\* the header of each request as a peer would write it
HeaderText == [raw \in DOMAIN Decoded |-> JSONstringify(Decoded[raw].msg.header)]

Decodes(t) == tasks[t].pc # "rejected"
Settled(t) == tasks[t].pc \in {"done", "failed"}
Handled(t) == tasks[t].pc \in {"finally", "idle", "end", "done", "failed"}
Recognized(t) == Msg(t).header.o.msg_type \in RequestTypes

IsReply(e) == e.kind = "send" /\ e.sock # "iopub"

Kind(e) ==
  IF e.kind = "call" THEN "call"
  ELSE IF e.sock # "iopub" THEN "reply"
  ELSE IF Content(e) = BusyContent THEN "busy"
  ELSE IF Content(e) = IdleContent THEN "idle"
  ELSE "other"

\* what happened for request t, in order, and the kinds of these events
Events(t) == SelectSeq(log, LAMBDA e : e.req = t)
Kinds(es) == [i \in DOMAIN es |-> Kind(es[i])]

IsPrefix(p, q) == Len(p) <= Len(q) /\ p = SubSeq(q, 1, Len(p))

\* where the wire layout puts the delimiter, 0 if there is none
DelimPos(raw) ==
  IF \E i \in DOMAIN raw : raw[i] = Delim
  THEN CHOOSE i \in DOMAIN raw : raw[i] = Delim /\ \A j \in 1..(i - 1) : raw[j] # Delim
  ELSE 0

\* the batch fails authentication by the wire layout: no signature matching
\* the body frames under the configured key, or a body frame that is no JSON
Unauthentic(raw) ==
  LET d == DelimPos(raw)
  IN \/ d = 0
     \/ Len(raw) < d + 5
     \/ raw[d + 1] # Hmac(Key, SubSeq(raw, d + 2, Len(raw)))
     \/ \E i \in (d + 2)..(d + 5) : JSONparse(raw[i]) = SyntaxError

UnauthenticInputs == {raw \in RawInputs : Unauthentic(raw)}

\* C1: every request that passes decoding gets, on iopub, only signed status
\* messages whose parent header is the request's header: nothing, then one
\* busy, then one idle; the busy is out before the request is routed and the
\* idle once its handling has ended, whether or not the handler threw.
StatusBracketing ==
  \A t \in DOMAIN tasks :
    Decodes(t) =>
      LET es == SelectSeq(log, LAMBDA e : e.req = t /\ e.sock = "iopub")
      IN /\ IsPrefix(Kinds(es), <<"busy", "idle">>)
         /\ \A i \in DOMAIN es :
              /\ Signed(es[i])
              /\ MsgType(es[i]) = "status"
              /\ Parent(es[i]) = HeaderText[tasks[t].raw]
         /\ tasks[t].pc # "busy" => Len(es) >= 1
         /\ (tasks[t].pc = "end" \/ Settled(t)) => Len(es) = 2

\* a request whose handler threw has ended with its busy and its idle, and
\* so has a request of an unrecognized type
StatusBracketingWitness ==
  \E t, u \in DOMAIN tasks :
    /\ tasks[t].pc = "failed"
    /\ Kinds(Events(t)) = <<"busy", "call", "idle">>
    /\ tasks[u].pc = "done" /\ ~Recognized(u)
    /\ Kinds(Events(u)) = <<"busy", "idle">>

\* C2: a batch that fails authentication (signature not the HMAC of its body
\* frames under the configured key, or a body frame that does not parse) is
\* dropped: no continuation is queued for it, no handler operation is
\* invoked, and nothing is sent for it on iopub or on any other socket.
AuthenticationGate ==
  \A t \in DOMAIN tasks :
    tasks[t].raw \in UnauthenticInputs =>
      /\ tasks[t].pc = "rejected"
      /\ \A i \in DOMAIN microtasks : microtasks[i] # t
      /\ \A i \in DOMAIN log : log[i].req # t

\* a batch whose body was altered after signing and another one that fails
\* authentication have both been dropped
AuthenticationGateWitness ==
  \E t, u \in DOMAIN tasks :
    /\ t # u
    /\ Unauthentic(tasks[t].raw) /\ Unauthentic(tasks[u].raw)
    /\ tasks[t].raw = OneIdent \o <<Delim, Hmac(Key, GoodBodies)>> \o EvilBodies
    /\ tasks[u].raw # tasks[t].raw
    /\ tasks[t].pc = "rejected" /\ tasks[u].pc = "rejected"

\* C3 (as claimed): every message derived from a request by createReply, the
\* reply and both status broadcasts, carries a msg_id that differs from the
\* request's msg_id and keeps the request's session and username.
FreshMsgId ==
  \A i \in DOMAIN log :
    log[i].kind = "send" =>
      /\ Field(log[i].frames[4], "msg_id") # Msg(log[i].req).header.o.msg_id
      /\ Field(log[i].frames[4], "session") = Msg(log[i].req).header.o.session
      /\ Field(log[i].frames[4], "username") = Msg(log[i].req).header.o.username

\* C4 (as claimed): the frames sent as the reply to a request start with the
\* request's routing identity frames, in order, followed by its delimiter.
IdentityPreserved ==
  \A i \in DOMAIN log :
    IsReply(log[i]) =>
      LET raw == tasks[log[i].req].raw
          d == DelimPos(raw)
      IN /\ d > 0
         /\ Len(log[i].frames) >= d
         /\ SubSeq(log[i].frames, 1, d) = SubSeq(raw, 1, d)

\* C5: whatever is sent for a request goes to iopub or to the socket the
\* request arrived on, and what goes to iopub is a status broadcast: a reply
\* is only ever sent on the socket of its request.
ReplyOnSameSocket ==
  \A i \in DOMAIN log :
    log[i].kind = "send" =>
      /\ log[i].sock \in {"iopub", tasks[log[i].req].sock}
      /\ MsgType(log[i]) # "status" => log[i].sock = tasks[log[i].req].sock
      /\ log[i].sock = "iopub" => MsgType(log[i]) = "status"

\* a shell request and a control request have both been answered, each on
\* its own socket
ReplyOnSameSocketWitness ==
  \E i, j \in DOMAIN log :
    /\ tasks[log[i].req].sock = "shell"
    /\ IsReply(log[i]) /\ log[i].sock = "shell"
    /\ tasks[log[j].req].sock = "control"
    /\ IsReply(log[j]) /\ log[j].sock = "control"

\* C6: for a decoded request of a recognized type, the handler operation of
\* that type and no other is invoked, once; if it returns, exactly one reply
\* is sent, on the request's socket, signed, with the _reply type, the
\* request's header as parent header and the handler's result as content.
RoutedOnce ==
  \A t \in DOMAIN tasks :
    (Decodes(t) /\ Recognized(t)) =>
      LET es == SelectSeq(log, LAMBDA e : e.req = t /\ e.sock # "iopub")
      IN /\ IsPrefix(Kinds(es), <<"call", "reply">>)
         /\ Len(es) >= 1 => es[1].op = HandlerOp(Msg(t).header.o.msg_type)
         /\ Handled(t) => Len(es) >= 1
         /\ (Handled(t) /\ ~tasks[t].threw) =>
              /\ Len(es) = 2
              /\ es[2].sock = tasks[t].sock
              /\ Signed(es[2])
              /\ MsgType(es[2]) = ReplyType(Msg(t).header.o.msg_type)
              /\ Parent(es[2]) = HeaderText[tasks[t].raw]
              /\ Content(es[2]) = JSONstringify(es[1].result)

\* an execute_request and a shutdown_request have both been handled and
\* answered
RoutedOnceWitness ==
  \E t, u \in DOMAIN tasks :
    /\ tasks[t].pc = "done" /\ tasks[u].pc = "done"
    /\ \E i \in DOMAIN log :
         log[i].req = t /\ IsReply(log[i]) /\ MsgType(log[i]) = "execute_reply"
    /\ \E i \in DOMAIN log :
         log[i].req = u /\ IsReply(log[i]) /\ MsgType(log[i]) = "shutdown_reply"

\* C7: a decoded request of an unrecognized type invokes no handler
\* operation and gets no reply: all that happens for it is a busy and then an
\* idle broadcast, both out when its handling has ended.
UnrecognizedType ==
  \A t \in DOMAIN tasks :
    (Decodes(t) /\ ~Recognized(t)) =>
      /\ IsPrefix(Kinds(Events(t)), <<"busy", "idle">>)
      /\ tasks[t].pc # "failed"
      /\ Settled(t) => Len(Events(t)) = 2

\* a frobnicate_request has ended with busy and idle and nothing else
UnrecognizedTypeWitness ==
  \E t \in DOMAIN tasks :
    /\ tasks[t].pc = "done"
    /\ Msg(t).header.o.msg_type = "frobnicate_request"
    /\ Kinds(Events(t)) = <<"busy", "idle">>

\* C8: when the handler operation of a request throws, no reply is sent for
\* the request, and the idle broadcast still follows the busy one: what
\* happens for it is busy, the call, and idle by the time its handling ends.
HandlerFailure ==
  \A t \in DOMAIN tasks :
    tasks[t].threw =>
      LET es == Events(t)
      IN /\ IsPrefix(Kinds(es), <<"busy", "call", "idle">>)
         /\ Len(es) >= 2
         /\ es[2].result = Thrown
         /\ (tasks[t].pc = "end" \/ Settled(t)) => Len(es) = 3
         /\ tasks[t].pc # "done"

\* an execute_request whose handler threw has ended: idle published, no reply
HandlerFailureWitness ==
  \E t \in DOMAIN tasks :
    /\ tasks[t].threw
    /\ tasks[t].pc = "failed"
    /\ Kinds(Events(t)) = <<"busy", "call", "idle">>
    /\ \A i \in DOMAIN log : log[i].req = t => ~IsReply(log[i])

\* C9 (as claimed): the idle status of a request is published before its
\* reply is sent.
IdleBeforeReply ==
  \A t \in DOMAIN tasks :
    LET ks == Kinds(Events(t))
    IN \A r \in DOMAIN ks :
         ks[r] = "reply" => \E i \in 1..(r - 1) : ks[i] = "idle"

\* C9 (amended): for a recognized request the order is busy published,
\* handler invoked, reply sent, idle published (no reply if the handler
\* threw): the reply is on the wire before the idle status.
LifecycleOrder ==
  \A t \in DOMAIN tasks :
    (Decodes(t) /\ Recognized(t)) =>
      IsPrefix(Kinds(Events(t)),
               IF tasks[t].threw THEN <<"busy", "call", "idle">>
               ELSE <<"busy", "call", "reply", "idle">>)

\* a request has gone through busy, handler, reply, idle, in this order
LifecycleOrderWitness ==
  \E t \in DOMAIN tasks :
    /\ tasks[t].pc = "done"
    /\ Kinds(Events(t)) = <<"busy", "call", "reply", "idle">>

\* the requests among t and u that had an event of kind k, in log order
Order(t, u, k) ==
  LET es == SelectSeq(log, LAMBDA e : e.req \in {t, u} /\ Kind(e) = k)
  IN [i \in DOMAIN es |-> es[i].req]

\* C10: of two decoded requests delivered to the same socket, the earlier
\* one has its busy status published first; if both are of recognized types
\* the earlier one's handler is invoked first and its reply is sent first.
ArrivalOrder ==
  \A t, u \in DOMAIN tasks :
    (t < u /\ tasks[t].sock = tasks[u].sock /\ Decodes(t) /\ Decodes(u)) =>
      /\ IsPrefix(Order(t, u, "busy"), <<t, u>>)
      /\ (Recognized(t) /\ Recognized(u)) =>
           /\ IsPrefix(Order(t, u, "call"), <<t, u>>)
           /\ ~tasks[t].threw => IsPrefix(Order(t, u, "reply"), <<t, u>>)

\* two requests on one socket, the second delivered before the first one's
\* handler ran, have both been answered, in arrival order
ArrivalOrderWitness ==
  \E t, u \in DOMAIN tasks :
    /\ t < u /\ tasks[t].sock = tasks[u].sock
    /\ Decodes(t) /\ Decodes(u)
    /\ Msg(t).header.o.msg_type # Msg(u).header.o.msg_type
    /\ \E i, j \in DOMAIN log :
         /\ i < j
         /\ log[i].req = u /\ Kind(log[i]) = "busy"
         /\ log[j].req = t /\ log[j].kind = "call"
    /\ Order(t, u, "reply") = <<t, u>>

\* request t has its busy status out and its idle status not yet
InBracket(t) ==
  Kinds(SelectSeq(log, LAMBDA e : e.req = t /\ e.sock = "iopub")) = <<"busy">>

IsExecute(t) ==
  /\ t \in DOMAIN tasks
  /\ Decodes(t)
  /\ Msg(t).header.o.msg_type = "execute_request"
  /\ Msg(t).content.t = "obj"

ExecuteReplies(t) ==
  SelectSeq(log, LAMBDA e : e.req = t /\ IsReply(e) /\ MsgType(e) = "execute_reply")

ExecutionCount(e) ==
  ParseScalar("execution_count", Field(Content(e), "execution_count"))

\* u was delivered after t and before the reply to t had been sent
BackToBack(t, u) ==
  /\ IsExecute(t) /\ IsExecute(u)
  /\ t < u
  /\ \A i \in 1..tasks[u].at : ~(log[i].req = t /\ IsReply(log[i]))

BothAnswered(t, u) ==
  /\ Len(ExecuteReplies(t)) = 1 /\ Len(ExecuteReplies(u)) = 1
  /\ ExecutionCount(ExecuteReplies(u)[1]) > ExecutionCount(ExecuteReplies(t)[1])
  /\ \A r \in {t, u} :
       Kinds(SelectSeq(log, LAMBDA e : e.req = r /\ e.sock = "iopub"))
         = <<"busy", "idle">>

\* C12: whenever two execute_request messages have been delivered, the
\* second before the reply to the first was sent, eventually each has got one
\* execute_reply, the execution_count of the later request's reply is
\* greater than that of the earlier one's, and busy and idle have been
\* published for both.
ExecuteBackToBack ==
  \A t \in 1..MaxRequests : \A u \in (t + 1)..MaxRequests :
    BackToBack(t, u) ~> BothAnswered(t, u)

\* two execute requests, the second delivered before anything was sent for
\* the first, have been answered with execution_count 1 and 2
ExecuteBackToBackWitness ==
  \E t, u \in DOMAIN tasks :
    /\ BackToBack(t, u)
    /\ tasks[u].at = tasks[t].at
    /\ BothAnswered(t, u)
    /\ ExecutionCount(ExecuteReplies(t)[1]) = 1
    /\ ExecutionCount(ExecuteReplies(u)[1]) = 2

IsHb(t) == tasks[t].sock = "hb"

\* where in the log the busy and the idle status of request t are, 0 if not
\* yet published
StatusAt(t, state) ==
  IF \E i \in DOMAIN log : log[i].req = t /\ Kind(log[i]) = state
  THEN CHOOSE i \in DOMAIN log : log[i].req = t /\ Kind(log[i]) = state
  ELSE 0

\* C13 (as claimed): a heartbeat payload that arrives while a request is
\* being handled, after its busy status and before its idle status, is
\* echoed without waiting for the handling to complete: the echo is out
\* before the request's idle status.
HeartbeatIndependence ==
  \A h, t \in DOMAIN tasks :
    (/\ IsHb(h) /\ ~IsHb(t)
     /\ StatusAt(t, "busy") > 0 /\ StatusAt(t, "idle") > 0
     /\ StatusAt(t, "busy") <= tasks[h].at
     /\ tasks[h].at < StatusAt(t, "idle")) =>
      \E i \in 1..StatusAt(t, "idle") : log[i].req = h

\* C14: a payload received on hb is sent back once, on hb, with exactly the
\* frames received, whatever they hold; nothing else is sent or called for
\* it, no call is queued for it, and the execution counter stays what the
\* execute requests handled made it.
HeartbeatEcho ==
  /\ \A t \in DOMAIN tasks :
       IsHb(t) =>
         /\ \A i \in DOMAIN microtasks : microtasks[i] # t
         /\ tasks[t].pc \in {"pending", "done"}
         /\ Events(t) = IF tasks[t].pc = "done"
                        THEN <<Send("hb", tasks[t].raw, t)>>
                        ELSE <<>>
  /\ \A i \in DOMAIN log : log[i].sock = "hb" => IsHb(log[i].req)
  /\ execCount = Len(SelectSeq(log, LAMBDA e : e.op = "handleExecute" /\ e.result # Thrown))

\* a correctly signed execute_request and a payload that is no text have
\* both been echoed on hb, and nothing was executed
HeartbeatEchoWitness ==
  \E t, u \in DOMAIN tasks :
    /\ IsHb(t) /\ tasks[t].pc = "done" /\ tasks[t].raw \in ExecuteInputs
    /\ IsHb(u) /\ tasks[u].pc = "done" /\ tasks[u].raw = <<<<"ping", BadByte>>>>
    /\ execCount = 0
    /\ Len(log) = 2

IsShutdown(t) ==
  /\ Decodes(t)
  /\ Msg(t).header.o.msg_type = "shutdown_request"

\* C15 (as claimed): once a shutdown_request has been handled and its
\* shutdown_reply sent, the process has exited: no request that arrives
\* afterwards (here: after the shutdown_reply and the idle status that
\* follows it are out) is dispatched to a handler or replied to.
NoServiceAfterShutdown ==
  \A t, u \in DOMAIN tasks :
    (/\ IsShutdown(t)
     /\ \E i \in 1..tasks[u].at : log[i].req = t /\ IsReply(log[i])
     /\ \E i \in 1..tasks[u].at : log[i].req = t /\ Kind(log[i]) = "idle") =>
      \A i \in DOMAIN log : log[i].req = u => Kind(log[i]) \notin {"call", "reply"}

\* C16: a shutdown_request with content {restart: false}, once handled, has
\* got one reply, a shutdown_reply whose content is {restart: false}, and the
\* converter's close has been invoked once for each shutdown_request handled.
ShutdownReleases ==
  /\ \A t \in DOMAIN tasks :
       (IsShutdown(t) /\ Msg(t).content = Obj([restart |-> FALSE]) /\ Handled(t)) =>
         LET es == SelectSeq(log, LAMBDA e : e.req = t /\ e.sock # "iopub")
         IN /\ Kinds(es) = <<"call", "reply">>
            /\ es[1].op = "handleShutdown"
            /\ MsgType(es[2]) = "shutdown_reply"
            /\ Content(es[2]) = JSONstringify(Obj([restart |-> FALSE]))
  /\ closeCalls = Cardinality({t \in DOMAIN tasks : IsShutdown(t) /\ Handled(t)})

\* a shutdown_request {restart: false} has been answered and close has been
\* called once
ShutdownReleasesWitness ==
  \E t \in DOMAIN tasks :
    /\ IsShutdown(t)
    /\ Msg(t).content = Obj([restart |-> FALSE])
    /\ tasks[t].pc = "done"
    /\ closeCalls = 1
    /\ \E i \in DOMAIN log :
         /\ log[i].req = t /\ IsReply(log[i])
         /\ Field(Content(log[i]), "restart") = "false"

\* C17 (as claimed): a bind failure is fatal: once binding one of the five
\* channels has failed, startup is aborted and the server takes up no
\* request, so it never serves requests with a channel unbound.
BindFailureFatal ==
  [][(\E ch \in Channels : proc.bound[ch] = "failed") => tasks' = tasks]_vars

\* C18 (as claimed): a kernel_info_reply carries protocol_version "5.3" and
\* the language_info.file_extension of the variant the process was started
\* as: ".ts" when the command name starts with "ts", ".js" otherwise.
KernelVariant ==
  \A i \in DOMAIN log :
    (IsReply(log[i]) /\ MsgType(log[i]) = "kernel_info_reply") =>
      /\ Field(Content(log[i]), "protocol_version") = "5.3"
      /\ Field(Content(log[i]), "language_info.file_extension")
           = IF mainTs(proc.cmd) THEN ".ts" ELSE ".js"

\* C19 (as claimed): decoding the frames signAndSend produces for a message
\* m under a key, with fromRaw under the same key, passes the signature check
\* and yields a message equal to m in identity, delimiter, header, parent,
\* metadata, content and extra buffers.
RoundTrip ==
  codec.pc = "decoded" =>
    /\ codec.out.ok
    /\ codec.out.msg.identity = codec.m.identity
    /\ codec.out.msg.delim = codec.m.delim
    /\ codec.out.msg.header = codec.m.header
    /\ codec.out.msg.parent = codec.m.parent
    /\ codec.out.msg.metadata = codec.m.metadata
    /\ codec.out.msg.content = codec.m.content
    /\ codec.out.msg.extra = codec.m.extra

\* the code of an execute request, and the executions that resolved true
\* among the execute requests answered so far
Code(t) == Msg(t).content.o.code

Succeeded ==
  {t \in DOMAIN tasks : IsExecute(t) /\ ExecuteReplies(t) # <<>> /\ execute(Code(t))}

\* C20 (as claimed): the execute_reply reports the outcome of the execution:
\* its status is "ok" exactly when the executor's execute resolved true and
\* "error" when it resolved false, and the execution counter has been
\* incremented once for each successful execution.
ExecuteOutcome ==
  /\ \A t \in DOMAIN tasks :
       IsExecute(t) =>
         \A i \in DOMAIN ExecuteReplies(t) :
           Field(Content(ExecuteReplies(t)[i]), "status")
             = (IF execute(Code(t)) THEN "ok" ELSE "error")
  /\ (\A t \in DOMAIN tasks : IsExecute(t) => tasks[t].pc = "done")
       => execCount = Cardinality(Succeeded)

\* what a call of execute resolves to when no interrupt reaches it
Uninterrupted(c) ==
  IF c.promise = "rejected" \/ ~execute(c.src) THEN "false" ELSE "true"

TypeOK ==
  /\ Len(tasks) <= MaxRequests
  /\ \A i \in DOMAIN microtasks : microtasks[i] \in DOMAIN tasks
  /\ execCount \in 0..MaxRequests
  /\ closeCalls \in 0..MaxRequests
  /\ \A t \in DOMAIN tasks : tasks[t].at \in 0..Len(log)
  /\ codec.pc \in {"none", "message", "sent", "decoded"}
  /\ exec.prevDecl \in {""} \cup ExecutorCodes
  /\ exec.interruptPromise \in 0..MaxInterrupts
  /\ exec.interrupts \in 0..MaxInterrupts
  /\ exec.rejected \subseteq 0..MaxInterrupts
  /\ Len(exec.calls) <= MaxExecutes
  /\ \A i \in DOMAIN exec.calls :
       /\ exec.calls[i].src \in ExecutorCodes
       /\ exec.calls[i].result \in {"pending", "true", "false"}
       /\ exec.calls[i].promise \in {"none", "pending", "fulfilled", "rejected"}
       /\ exec.calls[i].settled \in {"pending", "fulfilled", "rejected"}
  /\ \A k \in DOMAIN exec.jobs :
       /\ exec.jobs[k].kind \in {"race", "resume"}
       /\ exec.jobs[k].call \in DOMAIN exec.calls
  /\ proc.cmd \in Commands
  /\ proc.init \in {"none", "resolved"}
  /\ proc.alive \in BOOLEAN
  /\ \A ch \in Channels : proc.bound[ch] \in {"unbound", "pending", "bound", "failed"}

====
